---- MODULE Spec2Model ----
(***************************************************************************)
(* Model of test_analyzer:                                                 *)
(*   - InteractiveCSVParser / DatasetManager                               *)
(*       (src/interactive_csv_parser_system.py)                            *)
(*   - the name canonicalizer, the flow graph and the cycle report of      *)
(*       analyze_geometric_patterns (src/multiset_analyzer.py)             *)
(*   - start_workflow / run_compliance_analysis (src/app.py)               *)
(*                                                                         *)
(* Text is modelled as a sequence of one-character strings, so that        *)
(* strip(), split(), lower() ... are computed character by character.      *)
(***************************************************************************)
EXTENDS Integers, Sequences, FiniteSets, TLC

VARIABLES
    \* ---- InteractiveCSVParser / DatasetManager ----
    file_paths,       \* InteractiveCSVParser.file_paths
    file_count,       \* InteractiveCSVParser.file_count
    datasets,         \* DatasetManager.datasets: name -> table
    dataset_info,     \* DatasetManager.metadata['dataset_info']
    files_processed,  \* DatasetManager.metadata['files_processed']
    dataset_count,    \* DatasetManager.metadata['dataset_count']
    parse_date,       \* DatasetManager.metadata['parse_date'] ("None" / "set")
    pc,               \* position of the caller inside process_all_files
    file_num,         \* loop variable of process_all_files
    exits_end,        \* local of process_all_files: result of parse_exits_dataset
    runs,             \* number of process_all_files calls so far
    log,              \* what the parser has printed so far
    \* ---- clean_dataframe ----
    dfs,              \* a dataframe followed by its successive cleanings
    \* ---- canonical_name / same_person ----
    name_a, name_b,   \* two raw names
    keys_a,           \* canonical_name(name_a), then canonical_name of that key
    keys_b,           \* canonical_name(name_b)
    verdicts,         \* the result of same_person(name_a, name_b), once called
    \* ---- analyze_geometric_patterns ----
    rows_read,        \* the rows of all_exits, then of all_inputs, iterated so far
    G,                \* the DiGraph: (source key, target key) -> edge attributes
    graph_pc,         \* position inside analyze_geometric_patterns
    result,           \* what analyze_geometric_patterns returned
    analysis_results, \* MultisetAnalyzer.analysis_results
    \* ---- detect_separator ----
    sep_file,         \* the lines of the file detect_separator opens
    seps,             \* what the calls of detect_separator returned, in order
    \* ---- _find_dataset_end ----
    end_df,           \* the cleaned table _find_dataset_end is given
    end_rows,         \* what _find_dataset_end returned
    exits_stored,     \* the rows of the table that parse_exits_dataset stores
    inputs_stored,    \* the rows of the table that parse_inputs_dataset stores
    \* ---- parse_exits_dataset, parse_inputs_dataset, parse_waves_dataset ----
    csv_lines,        \* the lines of the file, each split at the separator
    ext_pc,           \* the section parse that runs next on the file
    ext,              \* the local values of the section parses
    \* ---- column names of the Inputs table ----
    col_count,        \* df_inputs.shape[1] after read_csv and clean_dataframe
    col_names,        \* the outcome of the assignment to df_inputs.columns
    \* ---- the web launcher (src/app.py) ----
    stage,            \* workflow_status['stage']
    requests,         \* the POST /api/start requests received, each with the
                      \* position of its handler and its answer
    threads           \* the run_compliance_analysis threads started

parserVars == <<file_paths, file_count, datasets, dataset_info, files_processed,
                dataset_count, parse_date, pc, file_num, exits_end, runs, log>>
cleanVars  == <<dfs>>
nameVars   == <<name_a, name_b, keys_a, keys_b, verdicts>>
graphVars  == <<rows_read, G, graph_pc, result, analysis_results>>
sepVars    == <<sep_file, seps>>
endVars    == <<end_df, end_rows, exits_stored, inputs_stored>>
fileVars   == <<csv_lines, ext_pc, ext>>
colVars    == <<col_count, col_names>>
webVars    == <<stage, requests, threads>>
extractVars == <<sepVars, endVars, fileVars, colVars, webVars>>
vars       == <<parserVars, cleanVars, nameVars, graphVars, extractVars>>

\* ---------------------------------------------------------------------------
\* Bounds
\* ---------------------------------------------------------------------------
MaxFiles == 2     \* files selected in a session
MaxRuns  == 2     \* calls of process_all_files in a session

\* ---------------------------------------------------------------------------
\* Generic helpers
\* ---------------------------------------------------------------------------
Last(s) == s[Len(s)]

Range(s) == {s[i] : i \in 1..Len(s)}

RECURSIVE SeqsUpTo(_, _)
SeqsUpTo(S, n) ==
    IF n = 0 THEN {<<>>}
    ELSE LET shorter == SeqsUpTo(S, n - 1)
         IN  shorter \cup {Append(s, x) : s \in shorter, x \in S}

Unset == "unset"
None  == <<"<None>">>      \* Python None / pandas NA; no text equals it

\* ---------------------------------------------------------------------------
\* Files.  What a file contains decides where its parse raises, if anywhere:
\* pandas.read_csv raises (e.g. EmptyDataError) before add_dataset is reached.
\* ---------------------------------------------------------------------------
Sections == <<"Exits", "Inputs", "Waves">>

Files == {"ok.csv", "bad_exits.csv", "bad_inputs.csv", "bad_waves.csv"}

RaisesIn(f) ==
    CASE f = "bad_exits.csv"  -> "Exits"
      [] f = "bad_inputs.csv" -> "Inputs"
      [] f = "bad_waves.csv"  -> "Waves"
      [] OTHER                -> "none"

\* the table that parsing section `type` of file f yields
ParsedTable(f, type) == <<f, type>>

\* f'Exits{file_num}'
DatasetName(type, n) == <<type, n>>

\* name.rstrip('0123456789')
NameType(name) == name[1]

\* print(...): one line of output, <<what, record type, file number>>
StdOut(ev, type, n) == log' = Append(log, <<ev, type, n>>)

\* ---------------------------------------------------------------------------
\* DatasetManager
\* ---------------------------------------------------------------------------
\* self.datasets[name] = dataframe; self.metadata['dataset_info'][name] = {...}
add_dataset(name, dataframe, source_file) ==
    /\ datasets' = [n \in DOMAIN datasets \cup {name} |->
                       IF n = name THEN dataframe ELSE datasets[n]]
    /\ dataset_info' = [n \in DOMAIN dataset_info \cup {name} |->
                       IF n = name
                       THEN [source |-> source_file, type |-> NameType(name)]
                       ELSE dataset_info[n]]

\* ---------------------------------------------------------------------------
\* InteractiveCSVParser: file selection and process_all_files
\* ---------------------------------------------------------------------------
\* The dialog loop appends every file the user picks, until the user says No.
interactive_file_selection ==
    /\ pc = "idle"
    /\ \E picked \in SeqsUpTo(Files, MaxFiles) :
          /\ picked # <<>>
          /\ Len(file_paths) + Len(picked) <= MaxFiles
          /\ file_paths' = file_paths \o picked
    /\ UNCHANGED <<cleanVars, nameVars, graphVars, extractVars,
                   file_count, datasets, dataset_info, files_processed,
                   dataset_count, parse_date, pc, file_num, exits_end, runs, log>>

\* process_all_files is entered: the banner is printed, the loop starts
process_all_files ==
    /\ pc = "idle"
    /\ runs < MaxRuns
    /\ runs' = runs + 1
    /\ file_num' = 0
    /\ exits_end' = Unset
    /\ StdOut("PROCESSING FILES", "-", 0)
    /\ pc' = "for"
    /\ UNCHANGED <<cleanVars, nameVars, graphVars, extractVars,
                   file_paths, file_count, datasets, dataset_info,
                   files_processed, dataset_count, parse_date>>

\* for file_num, file_path in enumerate(self.file_paths, 1): next iteration
ForNextFile ==
    /\ pc = "for"
    /\ file_num < Len(file_paths)
    /\ file_num' = file_num + 1
    /\ StdOut("Processing file", file_paths[file_num + 1], file_num + 1)
    /\ pc' = "parse_exits"
    /\ UNCHANGED <<cleanVars, nameVars, graphVars, extractVars,
                   file_paths, file_count, datasets, dataset_info,
                   files_processed, dataset_count, parse_date, exits_end, runs>>

\* ParseSection with a try/except of its own around every section: a section
\* that raises is logged and the next section of the same file is attempted
ParseSection_own_try(type, at, next) ==
    LET file_path == file_paths[file_num] IN
    /\ pc = at
    /\ IF RaisesIn(file_path) = type
       THEN /\ log' = log \o <<  <<"Parsing", type, file_num>>,
                                 <<"Error processing file", "-", file_num>>  >>
            /\ pc' = next
            /\ UNCHANGED <<datasets, dataset_info, exits_end>>
       ELSE /\ add_dataset(DatasetName(type, file_num),
                           ParsedTable(file_path, type), file_path)
            /\ log' = log \o <<  <<"Parsing", type, file_num>>,
                                 <<"OK", type, file_num>>  >>
            /\ exits_end' = IF type = "Exits" THEN "returned" ELSE exits_end
            /\ pc' = next
    /\ UNCHANGED <<cleanVars, nameVars, graphVars, extractVars,
                   file_paths, file_count, files_processed, dataset_count,
                   parse_date, file_num, runs>>

\* One section parse: prints "Parsing <type><n>...", then either raises
\* (nothing is stored) or stores the table and prints "[OK]".
ParseSection(type, at, next) ==
    LET file_path == file_paths[file_num] IN
    /\ pc = at
    /\ IF RaisesIn(file_path) = type
       THEN /\ log' = Append(log, <<"Parsing", type, file_num>>)
            /\ pc' = "except"
            /\ UNCHANGED <<datasets, dataset_info, exits_end>>
       ELSE /\ add_dataset(DatasetName(type, file_num),
                           ParsedTable(file_path, type), file_path)
            /\ log' = log \o <<  <<"Parsing", type, file_num>>,
                                 <<"OK", type, file_num>>  >>
            /\ exits_end' = IF type = "Exits" THEN "returned" ELSE exits_end
            /\ pc' = next
    /\ UNCHANGED <<cleanVars, nameVars, graphVars, extractVars,
                   file_paths, file_count, files_processed, dataset_count,
                   parse_date, file_num, runs>>

parse_exits_dataset  == ParseSection("Exits",  "parse_exits",  "parse_inputs")
parse_inputs_dataset == ParseSection("Inputs", "parse_inputs", "parse_waves")
parse_waves_dataset  == ParseSection("Waves",  "parse_waves",  "update")

\* files_processed.append(file_path); self.file_count = file_num
UpdateMetadata ==
    /\ pc = "update"
    /\ files_processed' = Append(files_processed, file_paths[file_num])
    /\ file_count' = file_num
    /\ StdOut("completed", "-", file_num)
    /\ pc' = "for"
    /\ UNCHANGED <<cleanVars, nameVars, graphVars, extractVars,
                   file_paths, datasets, dataset_info, dataset_count,
                   parse_date, file_num, exits_end, runs>>

\* an except clause that logs and lets the exception leave process_all_files
ExceptHandler_reraise ==
    /\ pc = "except"
    /\ StdOut("Error processing file", "-", file_num)
    /\ pc' = "raised"
    /\ UNCHANGED <<cleanVars, nameVars, graphVars, extractVars,
                   file_paths, file_count, datasets, dataset_info,
                   files_processed, dataset_count, parse_date, file_num,
                   exits_end, runs>>

\* except Exception as e: print(...); continue
ExceptHandler ==
    /\ pc = "except"
    /\ StdOut("Error processing file", "-", file_num)
    /\ pc' = "for"
    /\ UNCHANGED <<cleanVars, nameVars, graphVars, extractVars,
                   file_paths, file_count, datasets, dataset_info,
                   files_processed, dataset_count, parse_date, file_num,
                   exits_end, runs>>

\* the loop is exhausted: dataset_count and parse_date are set, the call returns
EndOfLoop ==
    /\ pc = "for"
    /\ file_num >= Len(file_paths)
    /\ dataset_count' = Cardinality(DOMAIN datasets)
    /\ parse_date' = "set"
    /\ pc' = "done"
    /\ UNCHANGED <<cleanVars, nameVars, graphVars, extractVars,
                   file_paths, file_count, datasets, dataset_info,
                   files_processed, file_num, exits_end, runs, log>>

\* display_summary: prints the totals (persisting to disk is not modelled)
display_summary ==
    /\ pc = "done"
    /\ StdOut("Total files processed", "-", file_count)
    /\ pc' = "idle"
    /\ UNCHANGED <<cleanVars, nameVars, graphVars, extractVars,
                   file_paths, file_count, datasets, dataset_info,
                   files_processed, dataset_count, parse_date, file_num,
                   exits_end, runs>>

\* a direct call of DatasetManager.add_dataset by a client of the manager
DirectNames  == {DatasetName("Exits", 1)}
DirectTables == {<<"client.csv", "t1">>, <<"client.csv", "t2">>}

AddDatasetCall ==
    /\ pc = "idle"
    /\ \E name \in DirectNames, dataframe \in DirectTables :
          add_dataset(name, dataframe, dataframe[1])
    /\ UNCHANGED <<cleanVars, nameVars, graphVars, extractVars,
                   file_paths, file_count, files_processed, dataset_count,
                   parse_date, pc, file_num, exits_end, runs, log>>

ParserInit ==
    /\ file_paths = <<>>
    /\ file_count = 0
    /\ datasets = <<>>
    /\ dataset_info = <<>>
    /\ files_processed = <<>>
    /\ dataset_count = 0
    /\ parse_date = "None"
    /\ pc = "idle"
    /\ file_num = 0
    /\ exits_end = Unset
    /\ runs = 0
    /\ log = <<>>

ParserNext ==
    \/ interactive_file_selection
    \/ process_all_files
    \/ ForNextFile
    \/ parse_exits_dataset
    \/ parse_inputs_dataset
    \/ parse_waves_dataset
    \/ UpdateMetadata
    \/ ExceptHandler
    \/ EndOfLoop
    \/ display_summary

\* ---------------------------------------------------------------------------
\* clean_dataframe.  A dataframe is [columns: names, rows: rows of cells];
\* a cell is a text or None.
\* ---------------------------------------------------------------------------
MaxCellLen == 3   \* characters of a generated cell
MaxColLen  == 2   \* characters of a generated column name

NBSP == "nbsp"                        \* the character U+00A0
WhiteSpace == {" ", "\t", "\n", NBSP}  \* what str.strip() removes
DQuote == "\""
SQuote == "'"

RECURSIVE lstrip(_, _)
lstrip(s, chars) ==
    IF s = <<>> THEN s
    ELSE IF Head(s) \in chars THEN lstrip(Tail(s), chars) ELSE s

RECURSIVE rstrip(_, _)
rstrip(s, chars) ==
    IF s = <<>> THEN s
    ELSE IF Last(s) \in chars THEN rstrip(SubSeq(s, 1, Len(s) - 1), chars) ELSE s

\* str.strip(chars)
strip(s, chars) == rstrip(lstrip(s, chars), chars)

\* str.replace(old, '') for a one-character old
RemoveChar(s, ch) == SelectSeq(s, LAMBDA c : c # ch)

\* lambda x: x.strip().strip('"').strip("'") if isinstance(x, str) else x
CleanCell(x) ==
    IF x = None THEN x
    ELSE strip(strip(strip(x, WhiteSpace), {DQuote}), {SQuote})

\* df.replace({"": None, "nan": None, "NaN": None, "None": None, "\xa0": None})
NullTokens == { <<>>, <<"n","a","n">>, <<"N","a","N">>,
                <<"N","o","n","e">>, <<NBSP>> }

ReplaceNulls(x) == IF x \in NullTokens THEN None ELSE x

\* columns.str.replace('"', '').str.replace("'", '').str.strip()
CleanColumn(c) == strip(RemoveChar(RemoveChar(c, DQuote), SQuote), WhiteSpace)

clean_dataframe(df) ==
    [columns |-> IF Len(df.columns) > 0
                 THEN [i \in 1..Len(df.columns) |-> CleanColumn(df.columns[i])]
                 ELSE df.columns,
     rows    |-> [r \in 1..Len(df.rows) |->
                    [c \in 1..Len(df.rows[r]) |->
                        ReplaceNulls(CleanCell(df.rows[r][c]))]]]

\* the table of the cleaning scenario: columns [" Name ", "'Amt'"],
\* row [' Jo"hn ', "100"]
ScenarioTable ==
    [columns |-> << <<" ","N","a","m","e"," ">>, <<"'","A","m","t","'">> >>,
     rows    |-> << << <<" ","J","o","\"","h","n"," ">>, <<"1","0","0">> >> >>]

CleanAlphabet == {" ", DQuote, SQuote, "a"}

ExtraCells == { <<"n","a","n">>, <<"N","a","N">>, <<"N","o","n","e">>, <<NBSP>>,
                <<DQuote,"n","a","n",DQuote>>, <<" ","a"," ","a"," ">> }

InputTables ==
    {ScenarioTable}
    \cup { [columns |-> <<col>>, rows |-> << <<cell>> >>] :
              col  \in SeqsUpTo(CleanAlphabet, MaxColLen),
              cell \in SeqsUpTo(CleanAlphabet, MaxCellLen)
                          \cup ExtraCells \cup {None} }
    \cup { [columns |-> <<>>, rows |-> <<>>] }

CleanInit == dfs \in {<<t>> : t \in InputTables}

CleanIdle == dfs = <<>>

\* df = self.clean_dataframe(df), applied to the result of the previous call
CleanDataframe ==
    /\ dfs # <<>>
    /\ Len(dfs) < 3
    /\ dfs' = Append(dfs, clean_dataframe(Last(dfs)))
    /\ UNCHANGED <<parserVars, nameVars, graphVars, extractVars>>

\* ---------------------------------------------------------------------------
\* Identity canonicalizer (helpers of analyze_geometric_patterns)
\* ---------------------------------------------------------------------------
MaxWords == 3     \* words of a generated name

UpperLetters == <<"A","B","C","D","E","F","G","H","I","J","K","L","M",
                  "N","O","P","Q","R","S","T","U","V","W","X","Y","Z">>
LowerLetters == <<"a","b","c","d","e","f","g","h","i","j","k","l","m",
                  "n","o","p","q","r","s","t","u","v","w","x","y","z">>
Digits       == <<"0","1","2","3","4","5","6","7","8","9">>

\* accented letters are written by name; "acute" is the combining accent U+0301
Accented  == {"Eacute", "eacute"}
Combining == {"acute"}

\* unicodedata.normalize('NFKD', ch) for one character
NFKD(ch) ==
    CASE ch = "Eacute" -> <<"E", "acute">>
      [] ch = "eacute" -> <<"e", "acute">>
      [] ch = NBSP     -> <<" ">>
      [] OTHER         -> <<ch>>

RECURSIVE normalize_NFKD(_)
normalize_NFKD(s) ==
    IF s = <<>> THEN <<>> ELSE NFKD(Head(s)) \o normalize_NFKD(Tail(s))

\* ''.join(ch for ch in normalize('NFKD', s) if not combining(ch))
_strip_accents(s) == SelectSeq(normalize_NFKD(s), LAMBDA ch : ch \notin Combining)

\* str.lower() for one character
LowerChar(ch) ==
    IF \E i \in 1..26 : UpperLetters[i] = ch
    THEN LowerLetters[CHOOSE i \in 1..26 : UpperLetters[i] = ch]
    ELSE IF ch = "Eacute" THEN "eacute" ELSE ch

lower(s) == [i \in 1..Len(s) |-> LowerChar(s[i])]

isalnum(ch) ==
    ch \in Range(UpperLetters) \cup Range(LowerLetters) \cup Range(Digits)
             \cup Accented

isspace(ch) == ch \in WhiteSpace

\* str.split(): the maximal runs of non-whitespace characters, in order
RECURSIVE split(_)
split(s) ==
    LET t == lstrip(s, WhiteSpace) IN
    IF t = <<>> THEN <<>>
    ELSE LET n == IF \E i \in 1..Len(t) : isspace(t[i])
                  THEN (CHOOSE i \in 1..Len(t) :
                           /\ isspace(t[i])
                           /\ \A k \in 1..(i - 1) : ~isspace(t[k])) - 1
                  ELSE Len(t)
         IN  <<SubSeq(t, 1, n)>> \o split(SubSeq(t, n + 1, Len(t)))

_tokens(name) ==
    IF name = <<>> \/ name = None THEN <<>>
    ELSE LET lowered == lower(_strip_accents(name))
             spaced  == [i \in 1..Len(lowered) |->
                            IF isalnum(lowered[i]) \/ isspace(lowered[i])
                            THEN lowered[i] ELSE " "]
         IN  SelectSeq(split(spaced), LAMBDA t : Len(t) >= 2)

\* ----- sorted(set of tokens), ' '.join(...) -----
CodePoints == Digits \o UpperLetters \o LowerLetters   \* in code point order

ord(ch) == CHOOSE i \in 1..Len(CodePoints) : CodePoints[i] = ch

\* s < t for Python strings
RECURSIVE StrLess(_, _)
StrLess(s, t) ==
    IF t = <<>> THEN FALSE
    ELSE IF s = <<>> THEN TRUE
    ELSE IF Head(s) = Head(t) THEN StrLess(Tail(s), Tail(t))
    ELSE ord(Head(s)) < ord(Head(t))

RECURSIVE sorted(_)
sorted(S) ==
    IF S = {} THEN <<>>
    ELSE LET least == CHOOSE x \in S : \A y \in S \ {x} : StrLess(x, y)
         IN  <<least>> \o sorted(S \ {least})

RECURSIVE join(_, _)
join(sep, parts) ==
    IF parts = <<>> THEN <<>>
    ELSE IF Len(parts) = 1 THEN parts[1]
    ELSE parts[1] \o sep \o join(sep, Tail(parts))

\* canonical_name that puts the last token first
canonical_name_last_first(name) ==
    LET toks == _tokens(name) IN
    IF toks = <<>> THEN <<>>
    ELSE IF Len(toks) = 1 THEN toks[1]
    ELSE toks[Len(toks)] \o <<" ">> \o toks[1]

\* canonical_name that sorts the tokens before taking the first and the last
canonical_name_sorted(name) ==
    LET toks == sorted(Range(_tokens(name))) IN
    IF toks = <<>> THEN <<>>
    ELSE IF Len(toks) = 1 THEN toks[1]
    ELSE toks[1] \o <<" ">> \o toks[Len(toks)]

canonical_name(name) ==
    LET toks == _tokens(name) IN
    IF toks = <<>> THEN <<>>
    ELSE IF Len(toks) = 1 THEN toks[1]
    ELSE toks[1] \o <<" ">> \o toks[Len(toks)]

\* ----- difflib.SequenceMatcher(None, a, b).ratio() (no junk; autojunk only
\* ----- applies to sequences of 200 or more elements) -----

\* length of the common run of a[i..ahi] and b[j..bhi]
RECURSIVE RunLen(_, _, _, _, _, _)
RunLen(a, b, i, j, ahi, bhi) ==
    IF i > ahi \/ j > bhi \/ a[i] # b[j] THEN 0
    ELSE 1 + RunLen(a, b, i + 1, j + 1, ahi, bhi)

\* find_longest_match: the longest common block of a[alo..ahi] and b[blo..bhi];
\* of the longest ones the block starting earliest in a, then earliest in b
find_longest_match(a, b, alo, ahi, blo, bhi) ==
    LET pairs  == (alo..ahi) \X (blo..bhi)
        size(p) == RunLen(a, b, p[1], p[2], ahi, bhi)
        best   == CHOOSE p \in pairs :
                    \A q \in pairs :
                       \/ size(p) > size(q)
                       \/ /\ size(p) = size(q)
                          /\ \/ p[1] < q[1]
                             \/ p[1] = q[1] /\ p[2] <= q[2]
    IN  [i |-> best[1], j |-> best[2], k |-> size(best)]

\* sum of the sizes of get_matching_blocks()
RECURSIVE MatchingSize(_, _, _, _, _, _)
MatchingSize(a, b, alo, ahi, blo, bhi) ==
    IF alo > ahi \/ blo > bhi THEN 0
    ELSE LET m == find_longest_match(a, b, alo, ahi, blo, bhi) IN
         IF m.k = 0 THEN 0
         ELSE m.k + MatchingSize(a, b, alo, m.i - 1, blo, m.j - 1)
                  + MatchingSize(a, b, m.i + m.k, ahi, m.j + m.k, bhi)

\* ratio() >= num/den, where ratio() = 2.0 * matches / (len(a) + len(b)),
\* and 1.0 when both are empty
RatioAtLeast(a, b, num, den) ==
    LET total == Len(a) + Len(b) IN
    IF total = 0 THEN num <= den
    ELSE 2 * MatchingSize(a, b, 1, Len(a), 1, Len(b)) * den >= num * total

\* same_person whose subset tier accepts a smaller set of one token
same_person_any_subset(a, b) ==
    IF a = <<>> \/ b = <<>> THEN FALSE
    ELSE IF canonical_name(a) = canonical_name(b) THEN TRUE
    ELSE LET ta == Range(_tokens(a))
             tb == Range(_tokens(b))
             smaller == IF Cardinality(tb) < Cardinality(ta) THEN tb ELSE ta
         IN  IF Cardinality(smaller) >= 1
                /\ (ta \subseteq tb \/ tb \subseteq ta)
             THEN TRUE
             ELSE RatioAtLeast(join(<<" ">>, sorted(ta)),
                               join(<<" ">>, sorted(tb)), 9, 10)

\* same_person with the ratio tier left out
same_person_without_ratio(a, b) ==
    IF a = <<>> \/ b = <<>> THEN FALSE
    ELSE IF canonical_name(a) = canonical_name(b) THEN TRUE
    ELSE LET ta == Range(_tokens(a))
             tb == Range(_tokens(b))
             smaller == IF Cardinality(tb) < Cardinality(ta) THEN tb ELSE ta
         IN  Cardinality(smaller) >= 2 /\ (ta \subseteq tb \/ tb \subseteq ta)

same_person(a, b) ==
    IF a = <<>> \/ b = <<>> THEN FALSE
    ELSE IF canonical_name(a) = canonical_name(b) THEN TRUE
    ELSE LET ta == Range(_tokens(a))
             tb == Range(_tokens(b))
             \* min(ta, tb, key=len): the first of the two on a tie
             smaller == IF Cardinality(tb) < Cardinality(ta) THEN tb ELSE ta
         IN  IF Cardinality(smaller) >= 2
                /\ (ta \subseteq tb \/ tb \subseteq ta)
             THEN TRUE
             ELSE RatioAtLeast(join(<<" ">>, sorted(ta)),
                               join(<<" ">>, sorted(tb)), 9, 10)

\* ----- names the canonicalizer is applied to -----
Words == { <<"a","b">>, <<"Eacute","b">>, <<"x">> }

JeanPierreDubois ==
    <<"J","e","a","n","-","P","i","e","r","r","e"," ","D","u","b","o","i","s">>
DuboisJeanPierre ==
    <<"D","u","b","o","i","s"," ","J","e","a","n"," ","P","i","e","r","r","e">>

LongToken ==
    <<"a","b","c","d","e","f","g","h","i","j","k","l","m","n">>

ExtraNames == { JeanPierreDubois, DuboisJeanPierre,
                LongToken, LongToken \o <<" ","a","b">>,
                <<"-">>, <<" ">>, <<"A","B","-","e","b">>,
                <<"a","b","c","d","e","f","g","h","i","j">>,
                <<"a","b","c","d","e","f","g","h","i">> }

Names == {join(<<" ">>, ws) : ws \in SeqsUpTo(Words, MaxWords)} \cup ExtraNames

NameInit ==
    /\ name_a \in Names
    /\ name_b \in Names
    /\ keys_a = <<>>
    /\ keys_b = <<>>
    /\ verdicts = <<>>

NameIdle ==
    /\ name_a = <<>>
    /\ name_b = <<>>
    /\ keys_a = <<>>
    /\ keys_b = <<>>
    /\ verdicts = <<>>

\* s, r = canonical_name(s_raw), canonical_name(r_raw)
Canonicalize ==
    /\ keys_a = <<>>
    /\ keys_a' = <<canonical_name(name_a)>>
    /\ keys_b' = <<canonical_name(name_b)>>
    /\ UNCHANGED <<parserVars, cleanVars, graphVars, extractVars, name_a, name_b, verdicts>>

\* canonical_name applied to a canonical key
Recanonicalize ==
    /\ Len(keys_a) = 1
    /\ keys_a' = Append(keys_a, canonical_name(keys_a[1]))
    /\ UNCHANGED <<parserVars, cleanVars, graphVars, extractVars, name_a, name_b, keys_b, verdicts>>

\* same_person(name_a, name_b)
ComparePersons ==
    /\ verdicts = <<>>
    /\ verdicts' = <<same_person(name_a, name_b)>>
    /\ UNCHANGED <<parserVars, cleanVars, graphVars, extractVars, name_a, name_b, keys_a, keys_b>>

\* ---------------------------------------------------------------------------
\* analyze_geometric_patterns: flow graph and cycles
\* ---------------------------------------------------------------------------
MaxExitsRows  == 2    \* rows of all_exits
MaxInputsRows == 2    \* rows of all_inputs

\* pd.to_numeric(text, errors='coerce') for signed integer literals; every
\* other text, and a missing value, gives NaN
IsDigits(t) == t # <<>> /\ \A i \in 1..Len(t) : t[i] \in Range(Digits)

RECURSIVE DigitsValue(_)
DigitsValue(t) ==
    IF t = <<>> THEN 0
    ELSE 10 * DigitsValue(SubSeq(t, 1, Len(t) - 1))
         + ((CHOOSE i \in 1..10 : Digits[i] = Last(t)) - 1)

\* a number is the one-element sequence <<n>>, NaN the empty sequence
NaN == <<>>

to_numeric(t) ==
    IF t = None \/ t = <<>> THEN NaN
    ELSE IF IsDigits(t) THEN <<DigitsValue(t)>>
    ELSE IF Head(t) = "-" /\ IsDigits(Tail(t)) THEN <<0 - DigitsValue(Tail(t))>>
    ELSE NaN

\* pd.to_numeric(amt_raw, errors='coerce') if amt_raw is not None else 0,
\* then float(amt) if pd.notna(amt) else 0.0.  row.get(...) of a cell of a
\* dtype=str table is a text or a missing value.
EdgeAmount(amt_raw) ==
    LET amt == to_numeric(amt_raw) IN IF amt = NaN THEN 0 ELSE amt[1]

NoGraph == <<>>      \* nx.DiGraph() without nodes and edges

has_edge(g, s, r) == <<s, r>> \in DOMAIN g

\* add_edge without the test of the canonical keys
add_edge_any_keys(g, sender_raw, receiver_raw, amt_raw, source) ==
    IF sender_raw = None \/ receiver_raw = None THEN g
    ELSE LET s == canonical_name(strip(sender_raw, WhiteSpace))
             r == canonical_name(strip(receiver_raw, WhiteSpace))
         IN  IF strip(sender_raw, WhiteSpace) = <<>>
                \/ strip(receiver_raw, WhiteSpace) = <<>> THEN g
             ELSE IF <<s, r>> \in DOMAIN g
             THEN [g EXCEPT ![<<s, r>>].amounts = Append(@, EdgeAmount(amt_raw))]
             ELSE [e \in DOMAIN g \cup {<<s, r>>} |->
                     IF e = <<s, r>>
                     THEN [amounts |-> <<EdgeAmount(amt_raw)>>, source |-> source]
                     ELSE g[e]]

\* the graph after add_edge(sender_raw, receiver_raw, date_raw, amt_raw, source)
add_edge(g, sender_raw, receiver_raw, amt_raw, source) ==
    IF sender_raw = None \/ receiver_raw = None THEN g
    ELSE LET s_raw == strip(sender_raw, WhiteSpace)
             r_raw == strip(receiver_raw, WhiteSpace)
         IN
         IF s_raw = <<>> \/ r_raw = <<>> THEN g
         ELSE IF same_person(s_raw, r_raw) THEN g
         ELSE LET s == canonical_name(s_raw)
                  r == canonical_name(r_raw)
              IN
              IF s = <<>> \/ r = <<>> \/ s = r THEN g
              ELSE IF has_edge(g, s, r)
                   THEN [g EXCEPT ![<<s, r>>].amounts =
                                     Append(@, EdgeAmount(amt_raw))]
                   ELSE [e \in DOMAIN g \cup {<<s, r>>} |->
                           IF e = <<s, r>>
                           THEN [amounts |-> <<EdgeAmount(amt_raw)>>,
                                 source  |-> source]
                           ELSE g[e]]

Nodes(g) == {e[1] : e \in DOMAIN g} \cup {e[2] : e \in DOMAIN g}

\* the rotations of a cycle given as a node list
Rotations(c) ==
    {[i \in 1..Len(c) |-> c[((i + k - 1) % Len(c)) + 1]] : k \in 0..(Len(c) - 1)}

\* the simple directed cycles of 2 or 3 nodes, as node lists (every rotation)
ShortCycleLists(g) ==
    {<<a, b>> : a \in Nodes(g), b \in Nodes(g)}
    \cup {<<a, b, c>> : a \in Nodes(g), b \in Nodes(g), c \in Nodes(g)}

IsSimpleCycle(g, c) ==
    /\ \A i, j \in 1..Len(c) : i # j => c[i] # c[j]
    /\ \A i \in 1..Len(c) : has_edge(g, c[i], c[(i % Len(c)) + 1])

\* a cycle enumeration that yields every rotation of a cycle as a cycle
ShortCycles_every_rotation(g) ==
    {{c} : c \in {d \in ShortCycleLists(g) : IsSimpleCycle(g, d)}}

\* nx.simple_cycles(G) restricted to 2 <= len(cycle) <= 3: each cycle is a
\* set of node lists that are rotations of each other; networkx yields one
\* of them
ShortCycles(g) ==
    {Rotations(c) : c \in {d \in ShortCycleLists(g) : IsSimpleCycle(g, d)}}

RECURSIVE SumSeq(_)
SumSeq(q) == IF q = <<>> THEN 0 ELSE Head(q) + SumSeq(Tail(q))

\* path = cycle + [cycle[0]]
ClosedPath(cycle) == Append(cycle, cycle[1])

\* amt_sum over range(len(path) - 1) that leaves the closing edge out
CycleTotal_open_path(g, cycle) ==
    LET amt[i \in 0..(Len(cycle) - 1)] ==
            IF i = 0 THEN 0
            ELSE amt[i - 1] + SumSeq(g[<<cycle[i], cycle[i + 1]>>].amounts)
    IN  amt[Len(cycle) - 1]

\* amt_sum += sum(data.get('amounts', [])) for every edge of the path
CycleTotal(g, cycle) ==
    LET path == ClosedPath(cycle)
        amt[i \in 0..(Len(path) - 1)] ==
            IF i = 0 THEN 0
            ELSE amt[i - 1] + SumSeq(g[<<path[i], path[i + 1]>>].amounts)
    IN  amt[Len(path) - 1]

\* a record whose 'Nodes' is the closed path
CycleRecord_nodes_path(g, cycle) ==
    [Type         |-> IF Len(cycle) = 2 THEN "2-way" ELSE "3-way",
     Pattern      |-> ClosedPath(cycle),
     Nodes        |-> ClosedPath(cycle),
     Total_Amount |-> CycleTotal(g, cycle),
     Edge_Count   |-> Len(cycle)]

\* patterns.append({...})
CycleRecord(g, cycle) ==
    [Type         |-> IF Len(cycle) = 2 THEN "2-way" ELSE "3-way",
     Pattern      |-> ClosedPath(cycle),
     Nodes        |-> cycle,
     Total_Amount |-> CycleTotal(g, cycle),
     Edge_Count   |-> Len(cycle)]

\* an order by total amount alone
SortedPatterns_by_amount_only(q) ==
    \A i, j \in 1..Len(q) : i < j => q[i].Total_Amount >= q[j].Total_Amount

\* sort_values(['Type', 'Total_Amount'], ascending=[True, False]): "2-way"
\* sorts before "3-way"
SortedPatterns(q) ==
    \A i, j \in 1..Len(q) :
        i < j =>
            \/ q[i].Type = "2-way" /\ q[j].Type = "3-way"
            \/ q[i].Type = q[j].Type /\ q[i].Total_Amount >= q[j].Total_Amount

\* the lists that hold every element of the set S once
Orderings(S) ==
    {q \in [1..Cardinality(S) -> S] : \A i, j \in 1..Cardinality(S) :
                                          i # j => q[i] # q[j]}

\* the data frames the cycle detection can produce for graph g: one record
\* for every cycle, built from the node list networkx yields for it, sorted
PatternFrames(g) ==
    LET cycles == ShortCycles(g)
        picks  == {f \in [cycles -> UNION cycles] : \A c \in cycles : f[c] \in c}
    IN  UNION { {q \in Orderings({CycleRecord(g, f[c]) : c \in cycles}) :
                    SortedPatterns(q)} : f \in picks }

\* ----- the rows of the merged Exits and Inputs tables -----
Row(sender, receiver, amt) == [sender |-> sender, receiver |-> receiver, amt |-> amt]

NameAA     == <<"a","a">>
NameBB     == <<"b","b">>
NameCC     == <<"c","c">>
NameAbCd   == <<"a","b"," ","c","d">>
NameAbCdEf == <<"a","b"," ","c","d"," ","e","f">>
NameAbEf   == <<"a","b"," ","e","f">>
NameAbEfCd == <<"a","b"," ","e","f"," ","c","d">>

\* rows with columns I (sender), H (receiver), O (amount)
ExitsRows ==
    { Row(NameAA, NameBB, <<"1","0","0">>),
      Row(NameAA, NameBB, <<"1","0">>),
      Row(NameBB, NameCC, <<"2","0">>),
      Row(NameAbCd, NameAbCdEf, <<"1","0">>),
      Row(None, NameBB, <<"1","0">>),
      Row(NameAA, NameBB, <<"a","b","c">>) }

\* rows with columns Hotel (sender), Golf (receiver), November (amount)
InputsRows ==
    { Row(NameBB, NameAA, <<"5","0">>),
      Row(NameCC, NameAA, <<"3","0">>),
      Row(NameAbCd, NameAbEf, <<"1","0">>),
      Row(<<" ">>, NameAA, <<"1","0">>),
      Row(NameAA, <<"x">>, None),
      Row(NameAbCd, NameAbEfCd, <<"1","0">>),
      Row(NameAA, NameBB, <<"-","5">>) }

ExitsRead  == SelectSeq(rows_read, LAMBDA e : e[1] = "Exits")
InputsRead == SelectSeq(rows_read, LAMBDA e : e[1] = "Inputs")

\* what a call returns: nothing yet, Python None, or a data frame of records
NotReturned     == [kind |-> "not returned", rows |-> <<>>]
ReturnedNone    == [kind |-> "None", rows |-> <<>>]
DataFrame(recs) == [kind |-> "DataFrame", rows |-> recs]

GraphInit ==
    /\ rows_read = <<>>
    /\ G = NoGraph
    /\ graph_pc = "exits"
    /\ result = NotReturned
    /\ analysis_results = <<>>

GraphIdle ==
    /\ rows_read = <<>>
    /\ G = NoGraph
    /\ graph_pc = "idle"
    /\ result = NotReturned
    /\ analysis_results = <<>>

\* for _, row in all_exits.iterrows(): add_edge(I, H, M, O, 'Exits')
ExitsRow ==
    /\ graph_pc = "exits"
    /\ Len(ExitsRead) < MaxExitsRows
    /\ \E row \in ExitsRows :
          /\ rows_read' = Append(rows_read, <<"Exits", row>>)
          /\ G' = add_edge(G, row.sender, row.receiver, row.amt, "Exits")
    /\ UNCHANGED <<parserVars, cleanVars, nameVars, extractVars,
                   graph_pc, result, analysis_results>>

\* the Exits rows are exhausted: all_inputs is built
ExitsDone ==
    /\ graph_pc = "exits"
    /\ graph_pc' = "inputs"
    /\ UNCHANGED <<parserVars, cleanVars, nameVars, extractVars,
                   rows_read, G, result, analysis_results>>

\* for _, row in all_inputs.iterrows(): add_edge(Hotel, Golf, Lima, November, 'Inputs')
InputsRow ==
    /\ graph_pc = "inputs"
    /\ Len(InputsRead) < MaxInputsRows
    /\ \E row \in InputsRows :
          /\ rows_read' = Append(rows_read, <<"Inputs", row>>)
          /\ G' = add_edge(G, row.sender, row.receiver, row.amt, "Inputs")
    /\ UNCHANGED <<parserVars, cleanVars, nameVars, extractVars,
                   graph_pc, result, analysis_results>>

\* ----- cycle detection on the graphs over three persons -----
\* the graph after the rows, each handed to add_edge with its record type
RECURSIVE BuildGraph(_)
BuildGraph(rows) ==
    IF rows = <<>> THEN NoGraph
    ELSE LET row == Last(rows)[2]
         IN  add_edge(BuildGraph(SubSeq(rows, 1, Len(rows) - 1)),
                      row.sender, row.receiver, row.amt, Last(rows)[1])

\* the six transfers between three persons: three in the Exits table, then
\* three in the Inputs table
Transfers ==
    << <<"Exits",  NameAA, NameBB>>, <<"Exits",  NameBB, NameCC>>,
       <<"Exits",  NameCC, NameAA>>, <<"Inputs", NameBB, NameAA>>,
       <<"Inputs", NameCC, NameBB>>, <<"Inputs", NameAA, NameCC>> >>

Absent == <<"absent">>

TransferAmounts == {Absent, <<"1","0">>, <<"2","0">>}

\* the rows of a choice of amounts, a transfer without amount left out
RECURSIVE RowsOf(_, _)
RowsOf(choice, k) ==
    IF k = 0 THEN <<>>
    ELSE RowsOf(choice, k - 1)
         \o (IF choice[k] = Absent THEN <<>>
             ELSE << <<Transfers[k][1],
                       Row(Transfers[k][2], Transfers[k][3], choice[k])>> >>)

CycleInit ==
    /\ \E choice \in [1..Len(Transfers) -> TransferAmounts] :
          /\ rows_read = RowsOf(choice, Len(Transfers))
          /\ G = BuildGraph(RowsOf(choice, Len(Transfers)))
    /\ graph_pc = "inputs"
    /\ result = NotReturned
    /\ analysis_results = <<>>

\* the Inputs rows are exhausted: the rest of analyze_geometric_patterns
DetectCycles ==
    /\ graph_pc = "inputs"
    /\ graph_pc' = "done"
    /\ IF DOMAIN G = {}
       THEN \* if G.number_of_edges() == 0: return None
            /\ result' = ReturnedNone
            /\ UNCHANGED analysis_results
       ELSE \E df_patterns \in PatternFrames(G) :
               /\ result' = DataFrame(df_patterns)
               /\ analysis_results' =
                     [k \in DOMAIN analysis_results \cup {"geometric_patterns"} |->
                         IF k = "geometric_patterns" THEN df_patterns
                         ELSE analysis_results[k]]
    /\ UNCHANGED <<parserVars, cleanVars, nameVars, extractVars, rows_read, G>>

\* ---------------------------------------------------------------------------
\* detect_separator
\* ---------------------------------------------------------------------------
MaxLineLen    == 3    \* characters of the first line
MaxDetections == 2    \* calls of detect_separator on the file

\* the parts of the model outside the section extraction
otherVars == <<parserVars, cleanVars, nameVars, graphVars, colVars, webVars>>

\* str.count(ch) for a one-character ch
count(s, ch) == Len(SelectSeq(s, LAMBDA c : c = ch))

\* f.readline(): the first line, the empty text at the end of the file
readline(file) == IF file = <<>> THEN <<>> ELSE Head(file)

\* detect_separator that answers tab on a tie
detect_separator_tab_on_tie(file) ==
    LET first_line == readline(file)
    IN  IF count(first_line, "\t") >= count(first_line, ",") THEN "\t" ELSE ","

detect_separator(file) ==
    LET first_line == readline(file)
    IN  IF count(first_line, "\t") > count(first_line, ",") THEN "\t" ELSE ","

SepAlphabet == {"\t", ",", "a"}

\* what follows the first line
RestOfFile == { <<>>, << <<"\t","\t","\t","\t">> >>, << <<",",",",",",",">> >> }

SepFiles ==
    {<<>>} \cup {<<first>> \o rest : first \in SeqsUpTo(SepAlphabet, MaxLineLen),
                                    rest \in RestOfFile}

SepInit == sep_file \in SepFiles /\ seps = <<>>

SepIdle == sep_file = <<>> /\ seps = <<>>

\* sep = self.detect_separator(file_path)
DetectSeparator ==
    /\ Len(seps) < MaxDetections
    /\ seps' = Append(seps, detect_separator(sep_file))
    /\ UNCHANGED <<otherVars, sep_file, endVars, fileVars>>

\* ---------------------------------------------------------------------------
\* _find_dataset_end
\* ---------------------------------------------------------------------------
MaxEndRows == 2    \* rows of the table given to _find_dataset_end

\* sub in text
Contains(text, sub) ==
    \E i \in 1..(Len(text) - Len(sub) + 1) : SubSeq(text, i, i + Len(sub) - 1) = sub

\* x.astype(str) of a cell: a missing value reads "nan" ("None" in some
\* pandas versions; neither is blank, neither is the marker)
astype_str(x) == IF x = None THEN <<"n","a","n">> ELSE x

Totale == <<"t","o","t","a","l","e">>

\* next((c for c in df.columns if "date" in str(c).lower()), None), as a column
\* position; 0 stands for None
DateColumn(columns) ==
    LET dated == {c \in 1..Len(columns) :
                     Contains(lower(columns[c]), <<"d","a","t","e">>)}
    IN  IF dated = {} THEN 0 ELSE CHOOSE c \in dated : \A d \in dated : c <= d

\* pd.isna(first_three).all() or (first_three.astype(str).str.strip() == "").all()
FirstThreeBlank(row) ==
    LET first_three == SubSeq(row, 1, 3)
    IN  \/ \A i \in 1..Len(first_three) : first_three[i] = None
        \/ \A i \in 1..Len(first_three) :
               strip(astype_str(first_three[i]), WhiteSpace) = <<>>

\* _find_dataset_end that looks for the blank-leading row before the marker
_find_dataset_end_blank_first(df) ==
    LET date_col == DateColumn(df.columns)
        totale_idx == IF date_col = 0 THEN {}
                      ELSE {r \in 1..Len(df.rows) :
                               lower(strip(astype_str(df.rows[r][date_col]),
                                           WhiteSpace)) = Totale}
        blank_idx == {r \in 1..Len(df.rows) :
                         Len(df.columns) >= 3 /\ FirstThreeBlank(df.rows[r])}
    IN  IF blank_idx # {}
        THEN (CHOOSE r \in blank_idx : \A q \in blank_idx : r <= q) - 1 - 1
        ELSE IF totale_idx # {}
        THEN (CHOOSE r \in totale_idx : \A q \in totale_idx : r <= q) - 1 - 2
        ELSE Len(df.rows) - 1

\* the row position (from 0) _find_dataset_end returns for a cleaned table
_find_dataset_end(df) ==
    LET date_col == DateColumn(df.columns)
        totale_idx == IF date_col = 0 THEN {}
                      ELSE {r \in 1..Len(df.rows) :
                               lower(strip(astype_str(df.rows[r][date_col]),
                                           WhiteSpace)) = Totale}
        blank_idx == {r \in 1..Len(df.rows) :
                         Len(df.columns) >= 3 /\ FirstThreeBlank(df.rows[r])}
    IN  IF totale_idx # {}
        THEN (CHOOSE r \in totale_idx : \A q \in totale_idx : r <= q) - 1 - 2
        ELSE IF blank_idx # {}
        THEN (CHOOSE r \in blank_idx : \A q \in blank_idx : r <= q) - 1 - 1
        ELSE Len(df.rows) - 1

\* ----- the cleaned tables _find_dataset_end is applied to -----
CellX == <<"x">>
CellSpace == <<" ">>

\* the first three cells of a row; wider rows repeat them
RowPatterns ==
    { <<CellX, CellX, CellX>>,
      <<<<"T","o","t","a","l","e">>, CellX, CellX>>,
      <<CellX, <<"T","O","T","A","L","E">>, None>>,
      <<<<"t","o","t","a","l">>, CellX, CellX>>,
      <<None, None, None>>,
      <<CellSpace, CellSpace, CellSpace>>,
      <<None, CellSpace, None>>,
      <<None, None, CellX>>,
      <<<<" ","T","o","t","a","l","e">>, None, None>> }

ColumnLists ==
    { << <<"D","a","t","e">>, <<"A">>, <<"B">> >>,
      << <<"A">>, <<"O","p"," ","D","A","T","E">>, <<"B">> >>,
      << <<"A">>, <<"B">>, <<"C">> >>,
      << <<"D","a","t","e">>, <<"A">> >>,
      << <<"A">>, <<"B">>, <<"C">>, <<"d","a","t","e","s">> >>,
      << <<"u","p","d","a","t","e">>, <<"D","a","t","e">>, <<"B">> >> }

RowOfWidth(pattern, w) == [i \in 1..w |-> pattern[((i - 1) % 3) + 1]]

EndTables ==
    { [columns |-> cols,
       rows    |-> [r \in 1..Len(pats) |-> RowOfWidth(pats[r], Len(cols))]] :
          cols \in ColumnLists, pats \in SeqsUpTo(RowPatterns, MaxEndRows) }

EndInit ==
    /\ end_df \in {<<t>> : t \in EndTables}
    /\ end_rows = <<>>
    /\ exits_stored = <<>>
    /\ inputs_stored = <<>>

\* exits_end = self._find_dataset_end(df)
FindDatasetEnd ==
    /\ end_df # <<>>
    /\ end_rows = <<>>
    /\ end_rows' = <<_find_dataset_end(end_df[1])>>
    /\ UNCHANGED <<otherVars, sepVars, end_df, exits_stored, inputs_stored,
                   fileVars>>

\* ---------------------------------------------------------------------------
\* Section extraction from the lines of one file
\* ---------------------------------------------------------------------------
MaxSpecials == 3      \* lines of a file that differ from its ordinary lines

ExitsSkipRows   == 3    \* skiprows=3 of parse_exits_dataset
ReturnOffset    == 3    \* return exits_end + 3
SearchOffset    == 10   \* search_start = exits_end_row + 10
SearchSpan      == 20   \* search_end = min(search_start + 20, len(lines))
MinHeaderFields == 5    \* non_empty >= 5
DefaultOffset   == 16   \* inputs_start = exits_end_row + 16
TailLines       == 800  \* tail_start = max(0, len(lines) - 800)
DefaultTail     == 50   \* waves_header = max(0, len(lines) - 50)

Max(a, b) == IF a >= b THEN a ELSE b
Min(a, b) == IF a <= b THEN a ELSE b

\* a line is the list lines[i].split(sep) of its fields, the line end left out;
\* line i of the file (counted from 0, as the code does) is csv_lines[i + 1]
EmptyLine == << <<>> >>

\* what pandas.read_csv(skiprows=skiprows, header=0 or None, dtype=str,
\* on_bad_lines="skip") makes of the lines: the skipped lines and the empty
\* lines are dropped, the first line left is the header (header=0) or fixes
\* the number of columns (header=None), a shorter row is filled with missing
\* values, a longer row is skipped, an empty field is a missing value; without
\* a line left it raises EmptyDataError
read_csv(lines, skiprows, with_header) ==
    LET kept  == SelectSeq(SubSeq(lines, skiprows + 1, Len(lines)),
                           LAMBDA l : l # EmptyLine)
        width == Len(Head(kept))
        data  == SelectSeq(IF with_header THEN Tail(kept) ELSE kept,
                           LAMBDA l : Len(l) <= width)
    IN  IF kept = <<>>
        THEN [raised |-> TRUE, columns |-> <<>>, rows |-> <<>>]
        ELSE [raised  |-> FALSE,
              columns |-> IF with_header THEN Head(kept)
                          ELSE [c \in 1..width |-> <<>>],
              rows    |-> [r \in 1..Len(data) |->
                             [c \in 1..width |->
                                 IF c > Len(data[r]) \/ data[r][c] = <<>>
                                 THEN None ELSE data[r][c]]]]

Frame(parsed) == [columns |-> parsed.columns, rows |-> parsed.rows]

\* sum(1 for f in fields if f.strip().strip('"\''))
non_empty(fields) ==
    Len(SelectSeq(fields,
                  LAMBDA f : strip(strip(f, WhiteSpace), {DQuote, SQuote}) # <<>>))

FooterPhrase ==
    <<"r","a","i","s","o","n"," ","d","u"," ","r","e","n","v","o","i">>

\* "raison du renvoi" in lines[i].lower().replace('"', '').replace("'", ""):
\* the phrase holds no separator, so it lies inside one field
HasFooterPhrase(line) ==
    \E c \in 1..Len(line) :
        Contains(RemoveChar(RemoveChar(lower(line[c]), DQuote), SQuote),
                 FooterPhrase)

\* ----- the three section parses, in the order process_all_files calls them --
NoLocals ==
    [exits_end    |-> <<>>,   \* exits_end of parse_exits_dataset
     handed       |-> <<>>,   \* what parse_exits_dataset returns
     inputs_start |-> <<>>,   \* inputs_start of parse_inputs_dataset
     inputs_by    |-> "",     \* "window" or "default"
     inputs_end   |-> <<>>,   \* inputs_end of parse_inputs_dataset
     waves_header |-> <<>>,   \* waves_header of parse_waves_dataset
     waves_by     |-> "",     \* "phrase", "blank" or "default"
     raised       |-> ""]     \* the section whose parse raised

\* exits_end_row = self.parse_exits_dataset(file_path, file_num)
ExtractExits ==
    /\ ext_pc = "exits"
    /\ LET parsed == read_csv(csv_lines, ExitsSkipRows, TRUE) IN
       IF parsed.raised
       THEN /\ ext' = [ext EXCEPT !.raised = "Exits"]
            /\ ext_pc' = "failed"
       ELSE LET df == clean_dataframe(Frame(parsed))
                end_found == _find_dataset_end(df)
            IN  /\ ext' = [ext EXCEPT !.exits_end = <<end_found>>,
                                      !.handed = <<end_found + ReturnOffset>>]
                /\ ext_pc' = "inputs"
    /\ UNCHANGED <<otherVars, sepVars, endVars, csv_lines>>

\* self.parse_inputs_dataset(file_path, exits_end_row, file_num)
ExtractInputs ==
    /\ ext_pc = "inputs"
    /\ LET exits_end_row == ext.handed[1]
           search_start  == exits_end_row + SearchOffset
           search_end    == Min(search_start + SearchSpan, Len(csv_lines))
           hits == {i \in search_start..(search_end - 1) :
                       non_empty(csv_lines[i + 1]) >= MinHeaderFields}
           inputs_start == IF hits # {}
                           THEN CHOOSE i \in hits : \A k \in hits : i <= k
                           ELSE exits_end_row + DefaultOffset
           found  == [ext EXCEPT !.inputs_start = <<inputs_start>>,
                                 !.inputs_by = IF hits # {} THEN "window"
                                               ELSE "default"]
           parsed == read_csv(csv_lines, inputs_start, TRUE)
       IN  IF parsed.raised
           THEN /\ ext' = [found EXCEPT !.raised = "Inputs"]
                /\ ext_pc' = "failed"
           ELSE LET df_inputs == clean_dataframe(Frame(parsed))
                IN  /\ ext' = [found EXCEPT !.inputs_end =
                                               <<_find_dataset_end(df_inputs)>>]
                    /\ ext_pc' = "waves"
    /\ UNCHANGED <<otherVars, sepVars, endVars, csv_lines>>

\* the rows of df_tail, counted from 0, whose first three cells are blank
BlankTailRows(df_tail) ==
    {i \in 0..(Len(df_tail.rows) - 1) :
        Len(df_tail.columns) >= 3 /\ FirstThreeBlank(df_tail.rows[i + 1])}

\* self.parse_waves_dataset(file_path, file_num)
ExtractWaves ==
    /\ ext_pc = "waves"
    /\ LET len_lines  == Len(csv_lines)
           tail_start == Max(0, len_lines - TailLines)
           footers == {i \in tail_start..(len_lines - 1) :
                          HasFooterPhrase(csv_lines[i + 1])}
           tail == read_csv(SubSeq(csv_lines, tail_start + 1, len_lines), 0, FALSE)
           blanks == IF tail.raised THEN {}
                     ELSE BlankTailRows(clean_dataframe(Frame(tail)))
           waves_header ==
               IF footers # {}
               THEN CHOOSE i \in footers : \A k \in footers : i >= k
               ELSE IF blanks # {}
               THEN tail_start + (CHOOSE i \in blanks : \A k \in blanks : i >= k) + 1
               ELSE Max(0, len_lines - DefaultTail)
           found == [ext EXCEPT !.waves_header = <<waves_header>>,
                                !.waves_by = IF footers # {} THEN "phrase"
                                             ELSE IF blanks # {} THEN "blank"
                                             ELSE "default"]
       IN  IF footers = {} /\ tail.raised
           THEN /\ ext' = [ext EXCEPT !.raised = "Waves"]
                /\ ext_pc' = "failed"
           ELSE IF read_csv(csv_lines, waves_header, TRUE).raised
           THEN /\ ext' = [found EXCEPT !.raised = "Waves"]
                /\ ext_pc' = "failed"
           ELSE /\ ext' = found
                /\ ext_pc' = "done"
    /\ UNCHANGED <<otherVars, sepVars, endVars, csv_lines>>

\* ----- the files the section parses are applied to -----
LineWidth == 5     \* fields of every line that is not empty

\* the line with the given fields, filled with empty fields up to LineWidth
LineOf(fields) ==
    [c \in 1..LineWidth |-> IF c <= Len(fields) THEN fields[c] ELSE <<>>]

NarrowLine  == LineOf(<< <<"x">>, <<"y">> >>)
WideLine    == LineOf(<< <<"a">>, <<"b">>, <<"c">>, <<"d">>, <<"e">> >>)
HeaderLine  == LineOf(<< <<"D","a","t","e">>, <<"b">>, <<"c">>, <<"d">>, <<"e">> >>)
TotalLine   == LineOf(<< <<"T","o","t","a","l","e">> >>)
BlankLine   == LineOf(<<>>)
FooterLine  ==
    LineOf(<< <<DQuote,"R","a","i","s","o","n"," ","D","u"," ",
                "R","e","n","v","o","i",DQuote>>, <<"x">> >>)

FileLengths == {2, 6, 30, 60, TailLines + 60}

\* the places (lines counted from 0) where a file of n lines may hold a line
\* that is not an ordinary one, and the lines it may hold there
Slots(n) ==
    {sl \in ({5, 6} \X {TotalLine, BlankLine, EmptyLine})
            \cup ({19, 25} \X {WideLine})
            \cup ({n - TailLines - 5} \X {FooterLine})
            \cup ({n - 55, n - 3, n - 1} \X {BlankLine, EmptyLine, FooterLine}) :
        sl[1] > ExitsSkipRows /\ sl[1] < n}

RECURSIVE Placements(_, _)
Placements(n, k) ==
    IF k = 0 THEN {{}}
    ELSE LET fewer == Placements(n, k - 1)
         IN  fewer \cup {S \cup {sl} : S \in fewer,
                                       sl \in {x \in Slots(n) : TRUE}}

OnePerLine(S) == \A a, b \in S : a[1] = b[1] => a = b

\* three ordinary lines, the header of the first section on line 3, ordinary
\* lines after it, and the special lines at their places
MakeFile(n, S) ==
    [i \in 1..n |->
        IF \E sl \in S : sl[1] = i - 1
        THEN (CHOOSE sl \in S : sl[1] = i - 1)[2]
        ELSE IF i - 1 = ExitsSkipRows THEN HeaderLine
        ELSE NarrowLine]

Files_csv ==
    {MakeFile(n, S) : <<n, S>> \in
        {<<m, T>> \in UNION {{m} \X Placements(m, MaxSpecials) : m \in FileLengths} :
            OnePerLine(T)}}

FileInit == csv_lines \in Files_csv /\ ext_pc = "exits" /\ ext = NoLocals

\* ---------------------------------------------------------------------------
\* The rows parse_exits_dataset and parse_inputs_dataset keep of a cleaned
\* table.  A stored table is the list of the row positions (from 0) of the
\* cleaned table that are in it.
\* ---------------------------------------------------------------------------
DroppedColumns == 2    \* iloc[:, :-2]

\* the positions rows[:stop] selects of n rows, as Python slices
iloc(n, stop) ==
    LET k == IF stop >= 0 THEN Min(stop, n) ELSE Max(n + stop, 0)
    IN  [i \in 1..k |-> i - 1]

\* if shape[1] > 2: iloc[:, :-2], then dropna(how="all"), of the rows at `at`
drop_columns_dropna(df, at) ==
    LET width == IF Len(df.columns) > DroppedColumns
                 THEN Len(df.columns) - DroppedColumns ELSE Len(df.columns)
    IN  SelectSeq(at, LAMBDA r : \E c \in 1..width : df.rows[r + 1][c] # None)

\* exits_end = self._find_dataset_end(df); exits_df = df.iloc[:exits_end + 1];
\* the last two columns and the empty rows are dropped; the table is stored
StoreExits ==
    /\ end_df # <<>>
    /\ exits_stored = <<>>
    /\ LET df == end_df[1]
           end_found == _find_dataset_end(df)
       IN  exits_stored' =
               <<drop_columns_dropna(df, iloc(Len(df.rows), end_found + 1))>>
    /\ UNCHANGED <<otherVars, sepVars, end_df, end_rows, inputs_stored, fileVars>>

\* inputs_end = self._find_dataset_end(df_inputs);
\* if inputs_end < len(df_inputs) - 1: df_inputs = df_inputs.iloc[:inputs_end + 1];
\* the last two columns and the empty rows are dropped; the table is stored
StoreInputs ==
    /\ end_df # <<>>
    /\ inputs_stored = <<>>
    /\ LET df == end_df[1]
           inputs_end == _find_dataset_end(df)
           at == IF inputs_end < Len(df.rows) - 1
                 THEN iloc(Len(df.rows), inputs_end + 1)
                 ELSE [i \in 1..Len(df.rows) |-> i - 1]
       IN  inputs_stored' = <<drop_columns_dropna(df, at)>>
    /\ UNCHANGED <<otherVars, sepVars, end_df, end_rows, exits_stored, fileVars>>

\* ---------------------------------------------------------------------------
\* The column names parse_inputs_dataset gives the Inputs table.  A name is
\* <<word>> for a word of the phonetic list and <<"Col_", i>> for f"Col_{i}".
\* ---------------------------------------------------------------------------
MaxColumns == 106       \* columns of the table read_csv returns

PlaceholderFrom == 24   \* range(24, 100)
PlaceholderTo   == 100

phonetic ==
    <<"Alpha", "Beta", "Charlie", "Delta", "Delta-1", "Echo", "Foxtrot", "Golf",
      "Hotel", "India", "Juliett", "Kilo", "Lima", "Mike", "November", "Oscar",
      "Papa", "Quebec", "Romeo", "Sierra", "Tango", "Uniform", "Victor",
      "Whiskey", "Xray">>

\* phonetic + [f"Col_{i}" for i in range(24, 100)]
ColumnNames ==
    [i \in 1..(Len(phonetic) + PlaceholderTo - PlaceholderFrom) |->
        IF i <= Len(phonetic) THEN <<phonetic[i]>>
        ELSE <<"Col_", PlaceholderFrom + i - Len(phonetic) - 1>>]

\* the number of columns left by: if shape[1] > 2: iloc[:, :-2]
ColumnsKept(n) == IF n > DroppedColumns THEN n - DroppedColumns ELSE n

\* df_inputs.columns = (...)[:len(df_inputs.columns)]: pandas raises
\* ValueError (length mismatch) unless it is given one name per column
rename_columns(n) ==
    LET names == SubSeq(ColumnNames, 1, Min(n, Len(ColumnNames)))
    IN  IF Len(names) = n
        THEN [raised |-> FALSE, names |-> names]
        ELSE [raised |-> TRUE,  names |-> <<>>]

ColumnsInit == col_count \in 1..MaxColumns /\ col_names = <<>>

ColumnsIdle == col_count = 0 /\ col_names = <<>>

\* lines 254-262 of parse_inputs_dataset
RenameColumns ==
    /\ col_count > 0
    /\ col_names = <<>>
    /\ col_names' = <<rename_columns(ColumnsKept(col_count))>>
    /\ UNCHANGED <<parserVars, cleanVars, nameVars, graphVars, sepVars, endVars,
                   fileVars, webVars, col_count>>

\* ---------------------------------------------------------------------------
\* The web launcher: start_workflow and run_compliance_analysis (src/app.py).
\* app.run() serves every request in a thread of its own, so the statements
\* of two handlers interleave; 'message' and 'progress' are left out.
\* ---------------------------------------------------------------------------
MaxRequests == 2    \* POST /api/start requests received

Restartable == {"idle", "complete", "error"}

\* workflow_status = {'stage': 'idle', ...}; no request yet, no thread
WebInit == stage = "idle" /\ requests = <<>> /\ threads = <<>>

\* POST /api/start arrives: data = request.json or {}; use_existing = ...
Post ==
    /\ Len(requests) < MaxRequests
    /\ \E use_existing \in BOOLEAN :
          requests' = Append(requests, [use_existing |-> use_existing,
                                        at |-> "check", answer |-> ""])
    /\ UNCHANGED <<parserVars, cleanVars, nameVars, graphVars, sepVars, endVars,
                   fileVars, colVars, stage, threads>>

\* if workflow_status['stage'] not in ['idle', 'complete', 'error']: return ...
StartCheck(r) ==
    /\ requests[r].at = "check"
    /\ requests' = [requests EXCEPT ![r] =
                       IF stage \in Restartable
                       THEN [@ EXCEPT !.at = "set"]
                       ELSE [@ EXCEPT !.at = "done",
                                      !.answer = "Workflow already in progress"]]
    /\ UNCHANGED <<parserVars, cleanVars, nameVars, graphVars, sepVars, endVars,
                   fileVars, colVars, stage, threads>>

\* workflow_status['stage'] = 'starting'
StartSet(r) ==
    /\ requests[r].at = "set"
    /\ stage' = "starting"
    /\ requests' = [requests EXCEPT ![r].at = "thread"]
    /\ UNCHANGED <<parserVars, cleanVars, nameVars, graphVars, sepVars, endVars,
                   fileVars, colVars, threads>>

\* thread = threading.Thread(...); thread.start(); return {'success': True}
StartThread(r) ==
    /\ requests[r].at = "thread"
    /\ threads' = Append(threads, [use_existing |-> requests[r].use_existing,
                                   at |-> "begin"])
    /\ requests' = [requests EXCEPT ![r].at = "done", ![r].answer = "success"]
    /\ UNCHANGED <<parserVars, cleanVars, nameVars, graphVars, sepVars, endVars,
                   fileVars, colVars, stage>>

\* run_compliance_analysis begins: 'parsing', or 'analyzing' with use_existing
RunBegin(t) ==
    /\ threads[t].at = "begin"
    /\ stage' = IF threads[t].use_existing THEN "analyzing" ELSE "parsing"
    /\ threads' = [threads EXCEPT ![t].at =
                      IF threads[t].use_existing THEN "analyzer" ELSE "parser"]
    /\ UNCHANGED <<parserVars, cleanVars, nameVars, graphVars, sepVars, endVars,
                   fileVars, colVars, requests>>

\* parser_main() returns a data manager, or returns nothing or raises
ParserReturns(t) ==
    /\ threads[t].at = "parser"
    /\ \E ok \in BOOLEAN :
          /\ stage' = IF ok THEN "analyzing" ELSE "error"
          /\ threads' = [threads EXCEPT ![t].at = IF ok THEN "analyzer" ELSE "ended"]
    /\ UNCHANGED <<parserVars, cleanVars, nameVars, graphVars, sepVars, endVars,
                   fileVars, colVars, requests>>

\* analyzer_main() returns a file, or returns none or raises; the thread ends
AnalyzerReturns(t) ==
    /\ threads[t].at = "analyzer"
    /\ \E ok \in BOOLEAN : stage' = IF ok THEN "complete" ELSE "error"
    /\ threads' = [threads EXCEPT ![t].at = "ended"]
    /\ UNCHANGED <<parserVars, cleanVars, nameVars, graphVars, sepVars, endVars,
                   fileVars, colVars, requests>>

start_workflow ==
    \E r \in 1..Len(requests) : StartCheck(r) \/ StartSet(r) \/ StartThread(r)

run_compliance_analysis ==
    \E t \in 1..Len(threads) : RunBegin(t) \/ ParserReturns(t) \/ AnalyzerReturns(t)

EndIdle ==
    /\ end_df = <<>>
    /\ end_rows = <<>>
    /\ exits_stored = <<>>
    /\ inputs_stored = <<>>

FileIdle == csv_lines = <<>> /\ ext_pc = "idle" /\ ext = <<>>

ExtractIdle == SepIdle /\ EndIdle /\ FileIdle /\ ColumnsIdle /\ WebInit

\* ---------------------------------------------------------------------------
\* Specifications
\* ---------------------------------------------------------------------------
\* the parser session: select files, process them, show the summary, repeat
Init == ParserInit /\ CleanIdle /\ NameIdle /\ GraphIdle /\ ExtractIdle

Next == ParserNext

Spec == Init /\ [][Next]_vars

\* the parser session plus clients calling DatasetManager.add_dataset directly
NextStore == ParserNext \/ AddDatasetCall

SpecStore == Init /\ [][NextStore]_vars

\* clean_dataframe applied repeatedly to a table
InitClean == ParserInit /\ CleanInit /\ NameIdle /\ GraphIdle /\ ExtractIdle

NextClean == CleanDataframe

SpecClean == InitClean /\ [][NextClean]_vars

\* canonical_name and same_person applied to pairs of names
InitNames == ParserInit /\ CleanIdle /\ NameInit /\ GraphIdle /\ ExtractIdle

NextNames == Canonicalize \/ Recanonicalize \/ ComparePersons

SpecNames == InitNames /\ [][NextNames]_vars

\* analyze_geometric_patterns over the rows of the Exits and Inputs tables
InitGraph == ParserInit /\ CleanIdle /\ NameIdle /\ GraphInit /\ ExtractIdle

NextGraph == ExitsRow \/ ExitsDone \/ InputsRow \/ DetectCycles

SpecGraph == InitGraph /\ [][NextGraph]_vars

\* the cycle detection of analyze_geometric_patterns on a graph that the rows
\* of the two tables have built
InitCycles == ParserInit /\ CleanIdle /\ NameIdle /\ CycleInit /\ ExtractIdle

NextCycles == DetectCycles

SpecCycles == InitCycles /\ [][NextCycles]_vars

\* detect_separator called repeatedly on one file
InitSep == ParserInit /\ CleanIdle /\ NameIdle /\ GraphIdle
           /\ SepInit /\ EndIdle /\ FileIdle /\ ColumnsIdle /\ WebInit

NextSep == DetectSeparator

SpecSep == InitSep /\ [][NextSep]_vars

\* _find_dataset_end applied to a cleaned table
InitEnd == ParserInit /\ CleanIdle /\ NameIdle /\ GraphIdle
           /\ SepIdle /\ EndInit /\ FileIdle /\ ColumnsIdle /\ WebInit

NextEnd == FindDatasetEnd \/ StoreExits \/ StoreInputs

SpecEnd == InitEnd /\ [][NextEnd]_vars

\* the section parses applied to the lines of one file
InitExtract == ParserInit /\ CleanIdle /\ NameIdle /\ GraphIdle
               /\ SepIdle /\ EndIdle /\ FileInit /\ ColumnsIdle /\ WebInit

NextExtract == ExtractExits \/ ExtractInputs \/ ExtractWaves

SpecExtract == InitExtract /\ [][NextExtract]_vars

\* the column naming of parse_inputs_dataset applied to a table of any width
InitColumns == ParserInit /\ CleanIdle /\ NameIdle /\ GraphIdle
               /\ SepIdle /\ EndIdle /\ FileIdle /\ ColumnsInit /\ WebInit

NextColumns == RenameColumns

SpecColumns == InitColumns /\ [][NextColumns]_vars

\* the web launcher serving POST /api/start requests
InitWorkflow == Init

NextWorkflow == Post \/ start_workflow \/ run_compliance_analysis

SpecWorkflow == InitWorkflow /\ [][NextWorkflow]_vars

\* one call of process_all_files runs to its end without being suspended
\* (section 5 of the design: synchronous, single-threaded)
RunStep ==
    \/ ForNextFile
    \/ parse_exits_dataset
    \/ parse_inputs_dataset
    \/ parse_waves_dataset
    \/ UpdateMetadata
    \/ ExceptHandler
    \/ EndOfLoop

SpecLive == Init /\ [][Next]_vars /\ WF_vars(RunStep)

\* ---------------------------------------------------------------------------
\* Reading the output of the current (latest) process_all_files call
\* ---------------------------------------------------------------------------
LastBanner ==
    IF \E i \in 1..Len(log) : log[i][1] = "PROCESSING FILES"
    THEN CHOOSE i \in 1..Len(log) :
            /\ log[i][1] = "PROCESSING FILES"
            /\ \A k \in (i + 1)..Len(log) : log[k][1] # "PROCESSING FILES"
    ELSE 0

RunLog == SubSeq(log, LastBanner + 1, Len(log))

Printed(ev, type, n) == \E i \in 1..Len(RunLog) : RunLog[i] = <<ev, type, n>>

Raised(n)          == Printed("Error processing file", "-", n)
Attempted(type, n) == Printed("Parsing", type, n)
Stored(type, n)    == Printed("OK", type, n)

\* the files of the "Processing file #n" lines of the current call, in order
AttemptedFiles ==
    LET lines == SelectSeq(RunLog, LAMBDA e : e[1] = "Processing file")
    IN  [i \in 1..Len(lines) |-> <<lines[i][3], lines[i][2]>>]

\* the file numbers of the "[OK]" lines of one record type, over the session
CreatedNumbers(type) ==
    LET lines == SelectSeq(log, LAMBDA e : e[1] = "OK" /\ e[2] = type)
    IN  [i \in 1..Len(lines) |-> lines[i][3]]

\* ---------------------------------------------------------------------------
\* Claims
\* ---------------------------------------------------------------------------

\* C1: after process_all_files, the store holds no dataset of a file whose
\* processing raised in one of its three section parses.
C1_FailedFileLeavesNoDataset ==
    pc = "done" =>
        \A n \in 1..Len(file_paths) :
            Raised(n) =>
                \A i \in 1..3 : DatasetName(Sections[i], n) \notin DOMAIN datasets

C3_Attempts ==
    /\ pc \in {"idle", "for", "parse_exits", "parse_inputs", "parse_waves",
               "update", "except", "done"}
    /\ pc \notin {"idle", "done"} =>
          AttemptedFiles = [i \in 1..file_num |-> <<i, file_paths[i]>>]
    /\ pc = "done" =>
          AttemptedFiles = [i \in 1..Len(file_paths) |-> <<i, file_paths[i]>>]

C3_AllFilesAttempted == []C3_Attempts /\ [](pc = "for" => <>(pc = "done"))

C3_Witness ==
    /\ pc = "done"
    /\ Len(file_paths) >= 2
    /\ Raised(1)
    /\ AttemptedFiles = [i \in 1..Len(file_paths) |-> <<i, file_paths[i]>>]

\* C4: the store is write-once per key: once a dataset name has a table, the
\* entry is never removed, replaced or changed.
C4_WriteOnce ==
    [][\A name \in DOMAIN datasets :
          name \in DOMAIN datasets' /\ datasets'[name] = datasets[name]]_vars

\* C5: for each record type the sequence numbers given to stored tables
\* strictly increase in order of creation (so none is given twice), over the
\* whole session.
C5_SequenceNumbersIncrease ==
    \A t \in 1..3 :
        LET nums == CreatedNumbers(Sections[t])
        IN  \A i, j \in 1..Len(nums) : i < j => nums[i] < nums[j]

\* C6: cleaning is idempotent: cleaning a cleaned table changes nothing.
C6_CleanIdempotent == Len(dfs) = 3 => dfs[3] = dfs[2]

\* C7: the table with columns [" Name ", "'Amt'"] and row [' Jo"hn ', "100"]
\* is cleaned to columns ["Name", "Amt"] and row ["John", "100"].
ScenarioCleaned ==
    [columns |-> << <<"N","a","m","e">>, <<"A","m","t">> >>,
     rows    |-> << << <<"J","o","h","n">>, <<"1","0","0">> >> >>]

C7_ScenarioIsCleaned ==
    (Len(dfs) >= 2 /\ dfs[1] = ScenarioTable) => dfs[2] = ScenarioCleaned

\* C8: canonicalization is idempotent: the canonical key of a canonical key is
\* that key.
C8_CanonicalIdempotent == Len(keys_a) = 2 => keys_a[2] = keys_a[1]

C8_Witness ==
    /\ Len(keys_a) = 2
    /\ Len(_tokens(name_a)) >= 3
    /\ keys_a[1] # name_a
    /\ keys_a[2] = keys_a[1]

\* C9: same_person(a, b) is true for all non-empty names a, b with the same
\* set of tokens (so for b = a, and for "Jean-Pierre Dubois" against
\* "Dubois Jean Pierre").
C9_SameTokensSamePerson ==
    (/\ verdicts # <<>>
     /\ name_a # <<>> /\ name_b # <<>>
     /\ Range(_tokens(name_a)) = Range(_tokens(name_b)))
        => verdicts[1] = TRUE

C9_Witness ==
    /\ verdicts = <<TRUE>>
    /\ name_a = JeanPierreDubois
    /\ name_b = DuboisJeanPierre

\* C10 (as stated): "Jean-Pierre Dubois" and "Dubois Jean Pierre" get the
\* identical canonical key.
C10_ScenarioKeysIdentical ==
    (keys_a # <<>> /\ name_a = JeanPierreDubois /\ name_b = DuboisJeanPierre)
        => keys_a[1] = keys_b[1]

\* C10 (amended): the canonical key is the first and the last token in the
\* order of the name: "Jean-Pierre Dubois" gets "jean dubois" and
\* "Dubois Jean Pierre" gets "dubois pierre"; two names of two or more tokens
\* get the identical key exactly when their first tokens are equal and their
\* last tokens are equal.
C10_KeyIsFirstAndLastToken ==
    keys_a # <<>> =>
        /\ name_a = JeanPierreDubois =>
              keys_a[1] = <<"j","e","a","n"," ","d","u","b","o","i","s">>
        /\ name_b = DuboisJeanPierre =>
              keys_b[1] = <<"d","u","b","o","i","s"," ","p","i","e","r","r","e">>
        /\ LET ta == _tokens(name_a)
               tb == _tokens(name_b)
           IN  (Len(ta) >= 2 /\ Len(tb) >= 2) =>
                  (keys_a[1] = keys_b[1]
                      <=> (ta[1] = tb[1] /\ ta[Len(ta)] = tb[Len(tb)]))

C10_Witness ==
    /\ keys_a # <<>>
    /\ name_a = JeanPierreDubois
    /\ name_b = DuboisJeanPierre
    /\ keys_a[1] # keys_b[1]

\* C11: after flow-graph building there is no edge between canonical(a) and
\* canonical(b) for any raw sender/receiver pair (a, b) of a row for which
\* same_person(a, b) holds.
C11_NoEdgeBetweenSamePersons ==
    \A i \in 1..Len(rows_read) :
        LET a == rows_read[i][2].sender
            b == rows_read[i][2].receiver
        IN  (a # None /\ b # None /\ same_person(a, b)) =>
                /\ ~has_edge(G, canonical_name(a), canonical_name(b))
                /\ ~has_edge(G, canonical_name(b), canonical_name(a))

\* C12: every cycle record has 2 or 3 nodes, pairwise distinct (the path
\* repeats only the closing node), and a total amount >= 0 when no row has a
\* negative amount.
NoNegativeAmount ==
    \A i \in 1..Len(rows_read) : EdgeAmount(rows_read[i][2].amt) >= 0

C12_CyclesAreShortAndSimple ==
    (graph_pc = "done" /\ result.kind = "DataFrame") =>
        \A k \in 1..Len(result.rows) :
            LET p == result.rows[k] IN
            /\ Len(p.Nodes) \in {2, 3}
            /\ \A i, j \in 1..Len(p.Nodes) : i # j => p.Nodes[i] # p.Nodes[j]
            /\ p.Pattern = Append(p.Nodes, p.Nodes[1])
            /\ NoNegativeAmount => p.Total_Amount >= 0

C12_Witness ==
    /\ graph_pc = "done"
    /\ result.kind = "DataFrame"
    /\ \E k \in 1..Len(result.rows) : Len(result.rows[k].Nodes) = 2
    /\ \E k \in 1..Len(result.rows) : Len(result.rows[k].Nodes) = 3

\* C13: the total amount of a cycle is the sum of all amounts of every edge
\* of its closed walk; A->B (100), B->A (50) give one 2-way cycle of total
\* 150; A->B, B->C, C->A (10, 20, 30) give one 3-way cycle of total 60 and no
\* 2-way cycle.
TwoWayScenario ==
    << <<"Exits",  Row(NameAA, NameBB, <<"1","0","0">>)>>,
       <<"Inputs", Row(NameBB, NameAA, <<"5","0">>)>> >>

ThreeWayScenario ==
    << <<"Exits",  Row(NameAA, NameBB, <<"1","0">>)>>,
       <<"Exits",  Row(NameBB, NameCC, <<"2","0">>)>>,
       <<"Inputs", Row(NameCC, NameAA, <<"3","0">>)>> >>

\* the edges of the closed walk over a cycle's nodes
WalkEdges(nodes) ==
    {<<nodes[i], nodes[(i % Len(nodes)) + 1]>> : i \in 1..Len(nodes)}

RECURSIVE AccumulatedOn(_, _)
AccumulatedOn(g, edges) ==
    IF edges = {} THEN 0
    ELSE LET e == CHOOSE x \in edges : TRUE
         IN  SumSeq(g[e].amounts) + AccumulatedOn(g, edges \ {e})

C13_TotalIsSumOfWalk ==
    (graph_pc = "done" /\ result.kind = "DataFrame") =>
        /\ \A k \in 1..Len(result.rows) :
              result.rows[k].Total_Amount =
                  AccumulatedOn(G, WalkEdges(result.rows[k].Nodes))
        /\ rows_read = TwoWayScenario =>
              /\ Len(result.rows) = 1
              /\ result.rows[1].Type = "2-way"
              /\ result.rows[1].Total_Amount = 150
        /\ rows_read = ThreeWayScenario =>
              /\ Len(result.rows) = 1
              /\ result.rows[1].Type = "3-way"
              /\ result.rows[1].Total_Amount = 60

C13_Witness ==
    /\ graph_pc = "done"
    /\ rows_read = ThreeWayScenario
    /\ Len(result.rows) = 1
    /\ result.rows[1].Total_Amount = 60

\* C14: when no edge survives filtering, analyze_geometric_patterns yields an
\* explicitly empty cycle list as its result.
C14_EmptyGraphGivesEmptyList ==
    (graph_pc = "done" /\ G = NoGraph) =>
        (result.kind = "DataFrame" /\ result.rows = <<>>)

\* C20 (as stated): when the canonical keys of a and b differ, same_person
\* is true whenever both token sets are non-empty and one is a subset of the
\* other, e.g. a one-token name against a two-token name containing it.
SubsetCase ==
    /\ verdicts # <<>>
    /\ LET ta == _tokens(name_a)
           tb == _tokens(name_b)
       IN  /\ ta # <<>>
           /\ tb # <<>>
           /\ Range(ta) \subseteq Range(tb) \/ Range(tb) \subseteq Range(ta)
    /\ canonical_name(name_a) # canonical_name(name_b)

C20_SubsetIsSamePerson == SubsetCase => verdicts[1] = TRUE

\* C20 (amended): in that case same_person is true exactly when the smaller
\* token set has two or more tokens, or the two sorted, space-joined token
\* sets (the shorter one is then a block of the longer one) reach a
\* similarity ratio of 0.9; a one-token name against a two-token name that
\* contains the token is not the same person unless that ratio is reached.
RECURSIVE JoinedLen(_)
JoinedLen(toks) ==
    IF toks = {} THEN 0 - 1
    ELSE LET t == CHOOSE x \in toks : TRUE
         IN  Len(t) + 1 + JoinedLen(toks \ {t})

C20_SubsetNeedsTwoTokens ==
    SubsetCase =>
        LET ta == Range(_tokens(name_a))
            tb == Range(_tokens(name_b))
            fewer == IF Cardinality(ta) <= Cardinality(tb) THEN ta ELSE tb
        IN  verdicts[1] =
              (\/ Cardinality(fewer) >= 2
               \/ 10 * 2 * JoinedLen(fewer) >= 9 * (JoinedLen(ta) + JoinedLen(tb)))

C20_Witness ==
    /\ verdicts = <<FALSE>>
    /\ name_a = <<"a","b">>
    /\ name_b = <<"a","b"," ","Eacute","b">>

\* C16: separator detection returns tab exactly when the first line has
\* strictly more tabs than commas, and comma otherwise; the result depends
\* only on the first line, so repeated detection gives the same result.
TabsOnFirstLine ==
    IF sep_file = <<>> THEN {}
    ELSE {k \in 1..Len(sep_file[1]) : sep_file[1][k] = "\t"}

CommasOnFirstLine ==
    IF sep_file = <<>> THEN {}
    ELSE {k \in 1..Len(sep_file[1]) : sep_file[1][k] = ","}

C16_TabIffMoreTabs ==
    \A i \in 1..Len(seps) :
        /\ seps[i] \in {"\t", ","}
        /\ seps[i] = "\t" <=>
              Cardinality(TabsOnFirstLine) > Cardinality(CommasOnFirstLine)
        /\ seps[i] = seps[1]

C16_Witness ==
    /\ seps = <<",", ",">>
    /\ Cardinality(TabsOnFirstLine) = 1
    /\ Cardinality(CommasOnFirstLine) = 1
    /\ Len(sep_file) = 2
    /\ count(sep_file[2], "\t") > 1

\* C15 (as stated): (1) if the date-like column has a cell equal,
\* case-insensitively, to the marker token "total", the end is that row's
\* index - 2, even when a blank-leading row occurs earlier; (2) otherwise the
\* end is index - 1 of the first row whose first three columns are all blank;
\* (3) otherwise the end is the last row.
EndTable == end_df[1]

\* row r (counted from 1) holds the marker in the first date-like column
HoldsMarker(r, marker) ==
    /\ DateColumn(EndTable.columns) # 0
    /\ EndTable.rows[r][DateColumn(EndTable.columns)] # None
    /\ lower(strip(EndTable.rows[r][DateColumn(EndTable.columns)], WhiteSpace))
          = marker

\* the first three columns of row r are all blank
BlankLeading(r) ==
    \/ \A c \in 1..3 : c <= Len(EndTable.columns) => EndTable.rows[r][c] = None
    \/ \A c \in 1..3 : c <= Len(EndTable.columns) =>
          /\ EndTable.rows[r][c] # None
          /\ \A k \in 1..Len(EndTable.rows[r][c]) :
                EndTable.rows[r][c][k] \in WhiteSpace

FirstRowWith(P(_), r) ==
    /\ r \in 1..Len(EndTable.rows)
    /\ P(r)
    /\ \A q \in 1..(r - 1) : ~P(q)

EndChain(marker, min_width) ==
    LET IsMarker(r) == HoldsMarker(r, marker)
        IsBlank(r)  == Len(EndTable.columns) >= min_width /\ BlankLeading(r)
        rows == 1..Len(EndTable.rows)
    IN  /\ \A r \in rows : FirstRowWith(IsMarker, r) => end_rows[1] = (r - 1) - 2
        /\ \A r \in rows :
              ((\A q \in rows : ~IsMarker(q)) /\ FirstRowWith(IsBlank, r))
                  => end_rows[1] = (r - 1) - 1
        /\ (\A q \in rows : ~IsMarker(q) /\ ~IsBlank(q))
              => end_rows[1] = Len(EndTable.rows) - 1

C15_EndChainTotal ==
    end_rows # <<>> => EndChain(<<"t","o","t","a","l">>, 0)

\* C15 (amended): the marker token is "totale", compared case-insensitively
\* and without surrounding whitespace in the first column whose name contains
\* "date": (1) the end is the index of the first row holding it, minus 2, even
\* when a blank-leading row occurs earlier; (2) otherwise, in a table of three
\* or more columns, the end is index - 1 of the first row whose first three
\* columns are all blank; (3) otherwise the end is the last row.
C15_EndChainTotale ==
    end_rows # <<>> => EndChain(Totale, 3)

C15_Witness ==
    /\ end_rows # <<>>
    /\ Len(EndTable.rows) = 2
    /\ BlankLeading(1)
    /\ HoldsMarker(2, Totale)
    /\ end_rows[1] = 0 - 1

\* C17: when every boundary heuristic of a section fails, the section is
\* extracted from its positional default (secondary header = primary_end + 16,
\* audit header = max(0, total_lines - 50)) and this never makes the
\* extraction fail, for every file length.
C17_DefaultsNeverFail ==
    /\ ext.inputs_by = "default" => ext.raised # "Inputs"
    /\ ext.waves_by = "default" => ext.raised # "Waves"

\* C18: the secondary header is the first file line with at least 5 non-blank
\* fields in a window of at most 20 lines that starts 10 lines after the file
\* line of the primary section's last row, else the line 16 after that line;
\* the position handed over by the primary parse is the file line of the
\* primary section's last row.
\* the file lines (from 0) that are rows of the primary table, in order
ExitsRowLines ==
    SelectSeq([i \in 1..Len(csv_lines) |-> i - 1],
              LAMBDA i : i > ExitsSkipRows /\ csv_lines[i + 1] # EmptyLine)

NonBlankFields(line) ==
    {c \in 1..Len(line) :
        \E k \in 1..Len(line[c]) :
            line[c][k] \notin WhiteSpace \cup {DQuote, SQuote}}

C18_SecondaryHeaderWindow ==
    (ext.inputs_by # "" /\ ext.exits_end[1] >= 0) =>
        LET last   == ExitsRowLines[ext.exits_end[1] + 1]
            window == {i \in (last + 10)..(last + 29) :
                          /\ i < Len(csv_lines)
                          /\ Cardinality(NonBlankFields(csv_lines[i + 1])) >= 5}
        IN  /\ ext.handed[1] = last
            /\ ext.inputs_start[1] =
                  IF window # {}
                  THEN CHOOSE i \in window : \A k \in window : i <= k
                  ELSE last + 16

\* C19: the audit header is (1) the line nearest the end of the file, among
\* the last 800 lines, that contains the footer phrase case-insensitively;
\* (2) if none, the line following the last row of the last-800-lines block
\* whose first three fields are blank; (3) if none, line
\* max(0, total_lines - 50).
LastLines ==
    {i \in 0..(Len(csv_lines) - 1) : i >= Len(csv_lines) - 800}

FooterLines ==
    {i \in LastLines :
        \E c \in 1..Len(csv_lines[i + 1]) :
            Contains(lower(csv_lines[i + 1][c]), FooterPhrase)}

BlankLeadingLines ==
    {i \in LastLines :
        /\ csv_lines[i + 1] # EmptyLine
        /\ \A c \in 1..3 :
              c <= Len(csv_lines[i + 1]) =>
                  \A k \in 1..Len(csv_lines[i + 1][c]) :
                      csv_lines[i + 1][c][k] \in WhiteSpace}

C19_AuditHeaderChain ==
    ext.waves_by # "" =>
        ext.waves_header[1] =
            IF FooterLines # {}
            THEN CHOOSE i \in FooterLines : \A k \in FooterLines : i >= k
            ELSE IF BlankLeadingLines # {}
            THEN (CHOOSE i \in BlankLeadingLines :
                     \A k \in BlankLeadingLines : i >= k) + 1
            ELSE Max(0, Len(csv_lines) - 50)

\* C21: every edge of the flow graph has a non-empty source key, a non-empty
\* target key and source # target; a row with a null or blank raw name, with
\* an empty canonical key or with equal canonical keys adds nothing to the
\* graph.
AddsNothing(row) ==
    \/ row.sender = None
    \/ row.receiver = None
    \/ \A k \in 1..Len(row.sender) : row.sender[k] \in WhiteSpace
    \/ \A k \in 1..Len(row.receiver) : row.receiver[k] \in WhiteSpace
    \/ canonical_name(row.sender) = <<>>
    \/ canonical_name(row.receiver) = <<>>
    \/ canonical_name(row.sender) = canonical_name(row.receiver)

NoSelfLoops ==
    \A e \in DOMAIN G : e[1] # <<>> /\ e[2] # <<>> /\ e[1] # e[2]

C21_NoSelfLoopsNoEmptyKeys ==
    /\ []NoSelfLoops
    /\ [][(rows_read' # rows_read /\ AddsNothing(Last(rows_read')[2]))
             => G' = G]_vars

C21_Witness ==
    /\ DOMAIN G # {}
    /\ \E i \in 1..Len(rows_read) : rows_read[i][2].sender = None
    /\ \E i \in 1..Len(rows_read) : rows_read[i][2].receiver = <<"x">>
    /\ \E i \in 1..Len(rows_read) : rows_read[i][2].receiver = NameAbEfCd

\* C22: every row that survives the filters appends one amount and one
\* provenance tag (its record type) to the edge canonical(sender) ->
\* canonical(receiver): an edge carries as many amounts and as many tags as
\* rows that produced it, so an edge fed by Exits and Inputs rows carries
\* both tags.
Survives(row) ==
    /\ ~AddsNothing(row)
    /\ ~same_person(strip(row.sender, WhiteSpace), strip(row.receiver, WhiteSpace))

\* the record types of the rows read that produced edge e, in order
RECURSIVE TagsFor(_, _)
TagsFor(rows, e) ==
    IF rows = <<>> THEN <<>>
    ELSE LET row == Head(rows)[2]
             hit == IF Survives(row)
                    THEN <<canonical_name(row.sender), canonical_name(row.receiver)>> = e
                    ELSE FALSE
         IN  (IF hit THEN <<Head(rows)[1]>> ELSE <<>>) \o TagsFor(Tail(rows), e)

\* the provenance tags an edge of the graph carries
TagsOn(e) == <<G[e].source>>

C22_OneAmountAndTagPerRow ==
    \A e \in DOMAIN G :
        /\ Len(G[e].amounts) = Len(TagsFor(rows_read, e))
        /\ TagsOn(e) = TagsFor(rows_read, e)

\* C23: a row whose amount fails numeric coercion is skipped: it adds no edge
\* and no amount to the graph.
FailsCoercion(row) == row.amt # None /\ to_numeric(row.amt) = NaN

C23_BadAmountRowSkipped ==
    [][(rows_read' # rows_read /\ FailsCoercion(Last(rows_read')[2]))
          => G' = G]_vars

\* C24: the cycle result holds exactly one record for each simple directed
\* cycle of 2 or 3 nodes of the flow graph and nothing else: none is missing,
\* rotations of a cycle are not separate records, and the two orientations of
\* a triangle are distinct cycles.
DirectedCycle(c) ==
    /\ Len(c) \in {2, 3}
    /\ \A i, j \in 1..Len(c) : i # j => c[i] # c[j]
    /\ \A i \in 1..Len(c) : <<c[i], c[(i % Len(c)) + 1]>> \in DOMAIN G

SameCycle(c, d) ==
    /\ Len(c) = Len(d)
    /\ \E k \in 0..(Len(c) - 1) :
          \A i \in 1..Len(c) : d[i] = c[((i + k - 1) % Len(c)) + 1]

C24_OneRecordPerCycle ==
    (graph_pc = "done" /\ result.kind = "DataFrame") =>
        /\ \A k \in 1..Len(result.rows) : DirectedCycle(result.rows[k].Nodes)
        /\ \A c \in SeqsUpTo(Nodes(G), 3) :
              DirectedCycle(c) =>
                  Cardinality({k \in 1..Len(result.rows) :
                                  SameCycle(c, result.rows[k].Nodes)}) = 1

C24_Witness ==
    /\ graph_pc = "done"
    /\ Cardinality(DOMAIN G) = 6
    /\ Len(result.rows) = 5
    /\ Cardinality({k \in 1..5 : result.rows[k].Type = "3-way"}) = 2

\* C25: the cycle result is ordered by length class ascending (2-way before
\* 3-way) and, within one length class, by total amount descending.
C25_OrderedByClassThenAmount ==
    (graph_pc = "done" /\ result.kind = "DataFrame") =>
        \A i, j \in 1..Len(result.rows) :
            i < j =>
                /\ result.rows[i].Edge_Count <= result.rows[j].Edge_Count
                /\ result.rows[i].Edge_Count = result.rows[j].Edge_Count
                      => result.rows[i].Total_Amount >= result.rows[j].Total_Amount

C25_Witness ==
    /\ graph_pc = "done"
    /\ Len(result.rows) = 3
    /\ result.rows[1].Type = "2-way"
    /\ result.rows[2].Type = "2-way"
    /\ result.rows[3].Type = "3-way"
    /\ result.rows[1].Total_Amount > result.rows[2].Total_Amount
    /\ result.rows[3].Total_Amount > result.rows[1].Total_Amount

\* C29: after process_all_files, file_count (printed as the total of files
\* processed) equals the number of files processed successfully, the length
\* of metadata['files_processed'], for every pattern of successes and
\* failures.  Stated for the first call on a fresh parser.
C29_FileCountIsSuccessCount ==
    (pc = "done" /\ runs = 1) => file_count = Len(files_processed)

\* C28: for a non-empty file, the audit header line index chosen by any of
\* the three strategies is a valid line index of the file
\* (0 <= header < total lines), also when the blank-leading row found by the
\* second strategy is the last row of the file.
C28_AuditHeaderInsideFile ==
    (Len(csv_lines) > 0 /\ ext.waves_header # <<>>) =>
        /\ 0 <= ext.waves_header[1]
        /\ ext.waves_header[1] < Len(csv_lines)

\* C26: for every number of columns of the Inputs table the renaming
\* succeeds and gives each column a distinct name by position: the words of
\* the phonetic list first, then a generated placeholder name for every
\* column beyond the length of the list.
C26_EveryColumnNamed ==
    col_names # <<>> =>
        LET named == col_names[1]
            n == ColumnsKept(col_count)
        IN  /\ ~named.raised
            /\ Len(named.names) = n
            /\ \A i, j \in 1..Len(named.names) :
                   i # j => named.names[i] # named.names[j]
            /\ \A i \in 1..Len(named.names) :
                   IF i <= Len(phonetic)
                   THEN named.names[i] = <<phonetic[i]>>
                   ELSE named.names[i][1] = "Col_"

\* C27: for every position of the marker row or of the first blank-leading
\* row, row 0 and row 1 included, the stored Exits and Inputs tables hold
\* only rows that come strictly before that row.
TerminalRow(df) ==
    LET date_col == DateColumn(df.columns)
        markers == IF date_col = 0 THEN {}
                   ELSE {r \in 1..Len(df.rows) :
                            lower(strip(astype_str(df.rows[r][date_col]),
                                        WhiteSpace)) = Totale}
        blanks == {r \in 1..Len(df.rows) :
                      Len(df.columns) >= 3 /\ FirstThreeBlank(df.rows[r])}
    IN  IF markers # {}
        THEN (CHOOSE r \in markers : \A q \in markers : r <= q) - 1
        ELSE IF blanks # {}
        THEN (CHOOSE r \in blanks : \A q \in blanks : r <= q) - 1
        ELSE Len(df.rows)

C27_OnlyRowsBeforeTerminalRow ==
    \A kept \in {exits_stored, inputs_stored} :
        kept # <<>> =>
            \A i \in 1..Len(kept[1]) : kept[1][i] < TerminalRow(end_df[1])

\* C30: at most one run_compliance_analysis thread is active at any time:
\* /api/start requests that arrive concurrently, or while the stage is
\* starting, parsing or analyzing, never start a second thread.
ActiveThreads == {t \in 1..Len(threads) : threads[t].at # "ended"}

C30_AtMostOneWorkflowThread == Cardinality(ActiveThreads) <= 1
====
